---------------------------- MODULE Spec2Model ----------------------------
(***************************************************************************)
(* A model of GjsSocket, the adapter socket of the transport layer          *)
(* (net.ts): the connection life cycle (connect / write / read / end /      *)
(* destroy and the backend's connect and read completions), the Read        *)
(* Buffer, and the parsing of connection targets.                           *)
(*                                                                          *)
(* Strings are sequences of one-character strings.  A number is a record    *)
(* [k, v]: k = "int" (the integer v), "frac" (v + 1/2), "nan", "inf",       *)
(* "ninf", and k = "null" stands for the absent port of parseHostPort.      *)
(* A handle is the id of the connection the backend handed over; 0 is the   *)
(* null reference.                                                          *)
(***************************************************************************)
EXTENDS Integers, Sequences, FiniteSets, TLC

\* ------------------------------------------------------------------ bounds
\* Backend connect requests one socket instance may issue in a run.
MaxConnects == 2
\* Bytes the peers deliver in a run, over all connections.
MaxBytes == 2
\* Largest chunk a single completed read delivers.
MaxChunk == MaxBytes
\* Pieces a connection target of the parsing specification is built from.
MaxTokens == 3

\* ------------------------------------------------------- program constants
MaxPort == 65535

\* ---------------------------------------------------------------- numbers
Int_(n) == [k |-> "int", v |-> n]
Frac(n) == [k |-> "frac", v |-> n]
NaN == [k |-> "nan", v |-> 0]
Infinity == [k |-> "inf", v |-> 0]
NegInfinity == [k |-> "ninf", v |-> 0]
NullPort == [k |-> "null", v |-> 0]

\* Number.isFinite(n)
IsFinite(n) == n.k \in {"int", "frac"}

\* n < 0, for a finite n  (v + 1/2 < 0  iff  v < 0)
Negative(n) == n.v < 0

\* n > 65535, for a finite n  (v + 1/2 > 65535  iff  v >= 65535)
AbovePortRange(n) == IF n.k = "frac" THEN n.v >= MaxPort ELSE n.v > MaxPort

\* A finite number counted in halves, and back.
Twice(n) == 2 * n.v + (IF n.k = "frac" THEN 1 ELSE 0)

FromTwice(t) == IF t % 2 = 0 THEN Int_(t \div 2) ELSE Frac((t - 1) \div 2)

\* a + b and a - b, for finite a and b
Plus(a, b) == FromTwice(Twice(a) + Twice(b))

Minus(a, b) == FromTwice(Twice(a) - Twice(b))

\* Math.min(a, b), for finite a and b
MathMin(a, b) == IF Twice(a) < Twice(b) THEN a ELSE b

\* The integer part of a finite n >= 0: what a length or an offset is cut to.
Trunc(n) == n.v

\* !Number.isFinite(port) || port < 0 || port > 65535
InvalidPort(n) == ~IsFinite(n) \/ Negative(n) \/ AbovePortRange(n)

\* ---------------------------------------------------------------- strings
\* The default host name
Localhost == <<"l", "o", "c", "a", "l", "h", "o", "s", "t">>

Digits == <<"0", "1", "2", "3", "4", "5", "6", "7", "8", "9">>

IsDigit(c) == \E i \in 1..10 : Digits[i] = c

DigitVal(c) == (CHOOSE i \in 1..10 : Digits[i] = c) - 1

IsSpace(c) == c = " "

RECURSIVE TrimStart(_)
TrimStart(s) == IF s # <<>> /\ IsSpace(Head(s)) THEN TrimStart(Tail(s)) ELSE s

RECURSIVE TrimEnd(_)
TrimEnd(s) ==
  IF s # <<>> /\ IsSpace(s[Len(s)]) THEN TrimEnd(SubSeq(s, 1, Len(s) - 1)) ELSE s

\* String.prototype.trim
Trim(s) == TrimEnd(TrimStart(s))

\* String.prototype.startsWith
StartsWith(s, p) == Len(s) >= Len(p) /\ SubSeq(s, 1, Len(p)) = p

\* String.prototype.endsWith
EndsWith(s, p) == Len(s) >= Len(p) /\ SubSeq(s, Len(s) - Len(p) + 1, Len(s)) = p

\* String.prototype.includes, for a one-character needle
Includes(s, c) == \E i \in 1..Len(s) : s[i] = c

\* String.prototype.indexOf, 0-based, -1 when absent
IndexOf(s, c) ==
  IF Includes(s, c)
    THEN (CHOOSE i \in 1..Len(s) : s[i] = c /\ \A j \in 1..(i - 1) : s[j] # c) - 1
    ELSE -1

\* String.prototype.lastIndexOf, 0-based, -1 when absent
LastIndexOf(s, c) ==
  IF Includes(s, c)
    THEN (CHOOSE i \in 1..Len(s) : s[i] = c /\ \A j \in (i + 1)..Len(s) : s[j] # c) - 1
    ELSE -1

\* s.slice(from, to) with 0-based from (inclusive) and to (exclusive)
Slice(s, from, to) == SubSeq(s, from + 1, to)

\* s.substring(from) / s.slice(from)
SliceFrom(s, from) == SubSeq(s, from + 1, Len(s))

RECURSIVE DigitPrefix(_)
DigitPrefix(s) ==
  IF s # <<>> /\ IsDigit(Head(s)) THEN <<Head(s)>> \o DigitPrefix(Tail(s)) ELSE <<>>

\* Every number from here on is written as this one: all of them are above
\* the port range, which is all the code asks of a number this large.
Huge == 1000 * MaxPort

RECURSIVE DigitsValue(_)
DigitsValue(ds) ==
  IF ds = <<>> THEN 0
  ELSE LET n == 10 * DigitsValue(SubSeq(ds, 1, Len(ds) - 1)) + DigitVal(ds[Len(ds)])
       IN  IF n > Huge THEN Huge ELSE n

\* Number.parseInt(s, 10): leading white space is skipped, an optional sign is
\* read, then the longest run of digits; whatever follows is ignored, and NaN
\* is the answer when no digit is found.
ParseInt(s) ==
  LET t == TrimStart(s)
      signed == t # <<>> /\ Head(t) \in {"+", "-"}
      body == IF signed THEN Tail(t) ELSE t
      ds == DigitPrefix(body)
  IN  IF ds = <<>> THEN NaN
      ELSE IF signed /\ Head(t) = "-" THEN Int_(0 - DigitsValue(ds))
      ELSE Int_(DigitsValue(ds))

RECURSIVE NatToStr(_)
NatToStr(n) ==
  IF n < 10 THEN <<Digits[n + 1]>> ELSE NatToStr(n \div 10) \o <<Digits[(n % 10) + 1]>>

\* `${port}` for a port that passed the range check (finite, 0..65535)
NumToStr(n) ==
  IF n.k = "frac" THEN NatToStr(n.v) \o <<".", "5">> ELSE NatToStr(n.v)


\* ------------------------------------------------------- address parsing
\* parseHostPort's null
NoHostPort == [ok |-> FALSE, host |-> <<>>, port |-> NullPort]

\* The port half of parseHostPort: portString is <<>> paired with hasPort =
\* FALSE for the null portString.
ParsePort(hasPort, portString, host) ==
  LET h == IF host = <<>> THEN Localhost ELSE host
  IN  IF ~hasPort THEN [ok |-> TRUE, host |-> h, port |-> NullPort]
      ELSE IF portString = <<>> THEN NoHostPort
      ELSE IF ParseInt(portString).k = "nan" THEN NoHostPort
      ELSE [ok |-> TRUE, host |-> h, port |-> ParseInt(portString)]

\* A mutant of parseHostPort: outside brackets the last colon always splits
\* host and port, however many colons there are.
parseHostPortLastColon(value) ==
  LET trimmed == Trim(value)
  IN  IF trimmed = <<>> THEN NoHostPort
      ELSE IF StartsWith(trimmed, <<"[">>)
        THEN LET closing == IndexOf(trimmed, "]")
                 remainder == SliceFrom(trimmed, closing + 1)
             IN  IF closing = -1 THEN NoHostPort
                 ELSE IF remainder # <<>> /\ ~StartsWith(remainder, <<":">>)
                   THEN NoHostPort
                 ELSE ParsePort(remainder # <<>>, SliceFrom(remainder, 1),
                                Slice(trimmed, 1, closing))
        ELSE LET lastColon == LastIndexOf(trimmed, ":")
             IN  IF lastColon # -1
                   THEN ParsePort(TRUE, SliceFrom(trimmed, lastColon + 1),
                                  Slice(trimmed, 0, lastColon))
                   ELSE ParsePort(FALSE, <<>>, trimmed)

\* GjsSocket.parseHostPort: [ok |-> FALSE] is its null result.
parseHostPort(value) ==
  LET trimmed == Trim(value)
  IN  IF trimmed = <<>> THEN NoHostPort
      ELSE IF StartsWith(trimmed, <<"[">>)
        THEN LET closing == IndexOf(trimmed, "]")
                 remainder == SliceFrom(trimmed, closing + 1)
             IN  IF closing = -1 THEN NoHostPort
                 ELSE IF remainder # <<>> /\ ~StartsWith(remainder, <<":">>)
                   THEN NoHostPort
                 ELSE ParsePort(remainder # <<>>, SliceFrom(remainder, 1),
                                Slice(trimmed, 1, closing))
        ELSE LET lastColon == LastIndexOf(trimmed, ":")
                 firstColon == IndexOf(trimmed, ":")
             IN  IF lastColon # -1 /\ firstColon = lastColon
                   THEN ParsePort(TRUE, SliceFrom(trimmed, lastColon + 1),
                                  Slice(trimmed, 0, lastColon))
                   ELSE ParsePort(FALSE, <<>>, trimmed)

\* A mutant of formatTcpUri: a host with a colon is not put in brackets.
formatTcpUriNoBrackets(host, port) ==
  LET trimmedHost == Trim(host)
      normalizedHost ==
        IF trimmedHost = <<>> THEN Localhost
        ELSE trimmedHost
  IN  <<"t", "c", "p", ":", "/", "/">> \o normalizedHost \o <<":">> \o NumToStr(port)

\* GjsSocket.formatTcpUri
formatTcpUri(host, port) ==
  LET trimmedHost == Trim(host)
      normalizedHost ==
        IF trimmedHost = <<>> THEN Localhost
        ELSE trimmedHost
      needsBrackets ==
        /\ Includes(normalizedHost, ":")
        /\ ~(StartsWith(normalizedHost, <<"[">>) /\ EndsWith(normalizedHost, <<"]">>))
      hostForUri ==
        IF needsBrackets THEN <<"[">> \o normalizedHost \o <<"]">> ELSE normalizedHost
  IN  <<"t", "c", "p", ":", "/", "/">> \o hostForUri \o <<":">> \o NumToStr(port)

\* What a connect() call resolves to before any state changes: an `error`
\* event, or one backend connect request.
Rejected(m) == [kind |-> "error", msg |-> m, uri |-> <<>>, path |-> <<>>]

TcpRequest(u) == [kind |-> "tcp", msg |-> "", uri |-> u, path |-> <<>>]

UnixRequest(p) == [kind |-> "unix", msg |-> "", uri |-> <<>>, path |-> p]

\* GjsSocket.beginTcpConnection, up to the point where the request is issued
beginTcpConnection(host, port) ==
  IF InvalidPort(port) THEN Rejected("Invalid TCP port.")
  ELSE TcpRequest(formatTcpUri(host, port))

\* GjsSocket.beginUnixConnection, up to the point where the request is issued.
\* gio is what the constructor stored in unixAddressConstructor: "full", or
\* "nounix" for null.  made is "ok" when the socket address can be built and
\* connect_async exists, "noaddress" and "noasync" otherwise.
beginUnixConnection(path, gio, made) ==
  LET trimmedPath == Trim(path)
  IN  IF trimmedPath = <<>> THEN Rejected("Invalid UNIX socket path.")
      ELSE IF gio = "nounix"
        THEN Rejected("Unix domain sockets are not supported in this environment.")
      ELSE IF made = "noaddress" THEN Rejected("Unable to create UNIX socket address.")
      ELSE IF made = "noasync"
        THEN Rejected("Gio.SocketClient.connect_async is not available in this environment.")
      ELSE UnixRequest(trimmedPath)

\* A mutant of connectFromHostPort: a missing port is taken to be port 0.
connectFromHostPortDefaultsPort(value) ==
  LET parsed == parseHostPort(value)
  IN  IF ~parsed.ok THEN Rejected("Invalid TCP address.")
      ELSE beginTcpConnection(parsed.host,
                              IF parsed.port.k = "null" THEN Int_(0) ELSE parsed.port)

\* GjsSocket.connectFromHostPort
connectFromHostPort(value) ==
  LET parsed == parseHostPort(value)
  IN  IF ~parsed.ok \/ parsed.port.k = "null" THEN Rejected("Invalid TCP address.")
      ELSE beginTcpConnection(parsed.host, parsed.port)

\* connect(port, host?): the numeric overload
ConnectNumber(port, hostGiven, host) ==
  IF InvalidPort(port) THEN Rejected("Invalid TCP port.")
  ELSE beginTcpConnection(
         IF hostGiven /\ host # <<>> THEN host
         ELSE Localhost, port)

\* A mutant of ConnectString: the unix: prefix is cut one character short.
ConnectStringCutsShort(target, gio, made) ==
  LET trimmedTarget == Trim(target)
      hostPort == parseHostPort(trimmedTarget)
  IN  IF trimmedTarget = <<>> THEN Rejected("Invalid connection target.")
      ELSE IF StartsWith(trimmedTarget, <<"u", "n", "i", "x", ":", "/", "/">>)
        THEN LET path == SliceFrom(trimmedTarget, 7)
             IN  beginUnixConnection(
                   IF StartsWith(path, <<"/">>) THEN path ELSE <<"/">> \o path, gio, made)
      ELSE IF StartsWith(trimmedTarget, <<"u", "n", "i", "x", ":">>)
        THEN beginUnixConnection(SliceFrom(trimmedTarget, 4), gio, made)
      ELSE IF StartsWith(trimmedTarget, <<"/">>)
        THEN beginUnixConnection(trimmedTarget, gio, made)
      ELSE IF StartsWith(trimmedTarget, <<"t", "c", "p", ":", "/", "/">>)
        THEN connectFromHostPort(SliceFrom(trimmedTarget, 6))
      ELSE IF StartsWith(trimmedTarget, <<"t", "c", "p", ":">>)
        THEN connectFromHostPort(SliceFrom(trimmedTarget, 4))
      ELSE IF hostPort.ok /\ hostPort.port.k # "null"
        THEN beginTcpConnection(hostPort.host, hostPort.port)
      ELSE IF hostPort.ok /\ Includes(trimmedTarget, ":")
        THEN Rejected("Invalid TCP address.")
      ELSE beginUnixConnection(trimmedTarget, gio, made)

\* connect(target): the string overload
ConnectString(target, gio, made) ==
  LET trimmedTarget == Trim(target)
      hostPort == parseHostPort(trimmedTarget)
  IN  IF trimmedTarget = <<>> THEN Rejected("Invalid connection target.")
      ELSE IF StartsWith(trimmedTarget, <<"u", "n", "i", "x", ":", "/", "/">>)
        THEN LET path == SliceFrom(trimmedTarget, 7)
             IN  beginUnixConnection(
                   IF StartsWith(path, <<"/">>) THEN path ELSE <<"/">> \o path, gio, made)
      ELSE IF StartsWith(trimmedTarget, <<"u", "n", "i", "x", ":">>)
        THEN beginUnixConnection(SliceFrom(trimmedTarget, 5), gio, made)
      ELSE IF StartsWith(trimmedTarget, <<"/">>)
        THEN beginUnixConnection(trimmedTarget, gio, made)
      ELSE IF StartsWith(trimmedTarget, <<"t", "c", "p", ":", "/", "/">>)
        THEN connectFromHostPort(SliceFrom(trimmedTarget, 6))
      ELSE IF StartsWith(trimmedTarget, <<"t", "c", "p", ":">>)
        THEN connectFromHostPort(SliceFrom(trimmedTarget, 4))
      ELSE IF hostPort.ok /\ hostPort.port.k # "null"
        THEN beginTcpConnection(hostPort.host, hostPort.port)
      ELSE IF hostPort.ok /\ Includes(trimmedTarget, ":")
        THEN Rejected("Invalid TCP address.")
      ELSE beginUnixConnection(trimmedTarget, gio, made)

\* GjsSocket.connect, as the resolution of its argument
ResolveTarget(arg, gio, made) ==
  IF arg.t = "num" THEN ConnectNumber(arg.port, arg.hostGiven, arg.s)
  ELSE ConnectString(arg.s, gio, made)

\* ------------------------------------------------------------------ state
VARIABLES
  connection,      \* GjsSocket.connection: a connection id, 0 for null
  inputStream,     \* GjsSocket.inputStream: the id of its connection, 0 for null
  outputStream,    \* GjsSocket.outputStream: the id of its connection, 0 for null
  buffers,         \* GjsSocket.buffers: the queued chunks, each a sequence of bytes
  bufferedLength,  \* GjsSocket.bufferedLength, a number
  readPending,     \* GjsSocket.readPending
  closed,          \* GjsSocket.closed
  connecting,      \* GjsSocket.connecting
  destroyed,       \* GjsSocket.destroyed
  gio,             \* GjsSocket.unixAddressConstructor: "full", or "nounix" for null
  issued,          \* backend connect requests issued so far
  connectsOut,     \* backend connect requests issued and not yet called back
  readsOut,        \* backend read requests issued and not yet called back
  nextByte,        \* the next byte the peers deliver
  released,        \* the handles close() was called on: <<id, part>>
  op,              \* the call or callback that ran last
  emitted,         \* the events it emitted, in order
  calls,           \* the backend calls it made, in order
  result,          \* what it returned
  thrown,          \* whether it ended by raising an exception to its caller
  portOrPath,      \* the connect() argument a specification fixes at the start, if any
  returned,        \* the bytes read() has returned so far, in order
  seen             \* the life-cycle events emitted so far (all but `error`)

sock == <<connection, inputStream, outputStream, buffers, bufferedLength,
          readPending, closed, connecting, destroyed>>

backend == <<issued, connectsOut, readsOut, nextByte, released>>

observed == <<op, emitted, calls, result, thrown, portOrPath, returned, seen>>

vars == <<sock, gio, backend, observed>>

Parts == {"input", "output", "connection"}

\* ---------------------------------------------------------------- inputs
NumArg(port, hostGiven, host) == [t |-> "num", port |-> port, hostGiven |-> hostGiven, s |-> host]

StrArg(target) == [t |-> "str", port |-> NullPort, hostGiven |-> FALSE, s |-> target]

\* The arguments connect() is called with: numeric and string targets, valid
\* ones and one of each kind the parser rejects.
ConnectArgs ==
  { NumArg(Int_(80), FALSE, <<>>),
    NumArg(Int_(65536), TRUE, <<"h">>),
    NumArg(NaN, FALSE, <<>>),
    StrArg(<<" ">>),
    StrArg(<<"u", "n", "i", "x", ":", "/", "s">>),
    StrArg(<<"u", "n", "i", "x", ":">>),
    StrArg(<<"t", "c", "p", ":", "/", "/", "h", ":", "8", "0">>),
    StrArg(<<"t", "c", "p", ":", "h">>),
    StrArg(<<"t", "c", "p", ":", "h", ":", "x">>),
    StrArg(<<"h", ":", "7", "0", "0", "0", "0">>),
    StrArg(<<"h", ":", "1", ":", "2">>),
    StrArg(<<"[", ":", ":", "1">>) }

\* Whether a Unix socket address can be built and connected.
UnixMade == {"ok", "noaddress", "noasync"}

\* The choices of UnixMade a connect(arg) call depends on.
MadeFor(arg) ==
  IF ResolveTarget(arg, "full", "ok").kind = "unix" THEN UnixMade ELSE {"ok"}

\* No argument of connect()
NoTarget == [t |-> "none", port |-> NullPort, hostGiven |-> FALSE, s |-> <<>>]

\* read(size?): no argument, or an integer size
ReadSizes ==
  {[given |-> FALSE, n |-> Int_(0)]}
    \cup {[given |-> TRUE, n |-> Int_(i)] : i \in (0 - 1)..(MaxBytes + 1)}

\* read(size) with a size that is no integer: 1/2, 3/2, ...
FractionalSizes == {[given |-> TRUE, n |-> Frac(i)] : i \in 0..(MaxBytes - 1)}

\* write(data): text, a Buffer or a Uint8Array
WriteData == {"string", "buffer", "uint8array"}

\* ----------------------------------------------------------- observations
This == [ret |-> "this", bytes |-> <<>>]

Bool(b) == [ret |-> IF b THEN "true" ELSE "false", bytes |-> <<>>]

Bytes(bs) == [ret |-> "bytes", bytes |-> bs]

NoValue == [ret |-> "none", bytes |-> <<>>]

Call(f, id, part, text) == [f |-> f, id |-> id, part |-> part, text |-> text]

Events(es) == {es[i] : i \in 1..Len(es)}

Named(cs, f) == SelectSeq(cs, LAMBDA c : c.f = f)

\* What every call and callback records about itself.
Observe(name, events, ret, threw) ==
  /\ op' = name
  /\ emitted' = events
  /\ result' = ret
  /\ thrown' = threw
  /\ portOrPath' = portOrPath
  /\ returned' = returned \o ret.bytes
  /\ seen' = seen \cup (Events(events) \ {"error"})

NoBackendCall == calls' = <<>>

\* ------------------------------------------------------------- the socket
\* A socket as its constructor leaves it.
NewSocket ==
  /\ connection = 0 /\ inputStream = 0 /\ outputStream = 0
  /\ buffers = <<>> /\ bufferedLength = Int_(0)
  /\ readPending = FALSE /\ closed = FALSE
  /\ connecting = FALSE /\ destroyed = FALSE
  /\ gio \in {"full", "nounix"}
  /\ issued = 0 /\ connectsOut = 0 /\ readsOut = 0 /\ nextByte = 1
  /\ released = {}
  /\ op = "new" /\ emitted = <<>> /\ calls = <<>>
  /\ result = NoValue /\ thrown = FALSE /\ seen = {}
  /\ returned = <<>>

Init == NewSocket /\ portOrPath = NoTarget

\* The close() calls of cleanupStreams, in its order: one per held handle.
CloseCalls ==
  (IF inputStream # 0 THEN <<Call("close", inputStream, "input", <<>>)>> ELSE <<>>)
  \o (IF outputStream # 0 THEN <<Call("close", outputStream, "output", <<>>)>> ELSE <<>>)
  \o (IF connection # 0 THEN <<Call("close", connection, "connection", <<>>)>> ELSE <<>>)

\* A mutant of cleanupStreams: the output stream is closed and not dropped.
cleanupStreamsKeepsOutput(fails) ==
  /\ calls' = CloseCalls
  /\ released' = released \cup {<<CloseCalls[i].id, CloseCalls[i].part>> : i \in 1..Len(CloseCalls)}
  /\ inputStream' = 0
  /\ outputStream' = outputStream
  /\ connection' = 0
  /\ readPending' = FALSE
  /\ connecting' = FALSE

\* A mutant of cleanupStreams: a close() that raises ends the method, so the
\* handles after it are neither closed nor dropped and the flags stay.
cleanupStreamsStopsAtFailure(fails) ==
  LET done == IF "input" \in fails THEN {"input"}
              ELSE IF "output" \in fails THEN {"input", "output"}
              ELSE Parts
      tried == SelectSeq(CloseCalls, LAMBDA c : c.part \in done)
      whole == fails = {}
  IN  /\ calls' = tried
      /\ released' = released \cup {<<tried[i].id, tried[i].part>> : i \in 1..Len(tried)}
      /\ inputStream' = (IF "input" \in fails THEN inputStream ELSE 0)
      /\ outputStream' = (IF fails \cap {"input", "output"} # {} THEN outputStream ELSE 0)
      /\ connection' = (IF whole THEN 0 ELSE connection)
      /\ readPending' = (IF whole THEN FALSE ELSE readPending)
      /\ connecting' = (IF whole THEN FALSE ELSE connecting)

\* GjsSocket.cleanupStreams; fails are the handles whose close() raises, which
\* the method catches and ignores.
cleanupStreams(fails) ==
  /\ calls' = CloseCalls
  /\ released' = released \cup {<<CloseCalls[i].id, CloseCalls[i].part>> : i \in 1..Len(CloseCalls)}
  /\ inputStream' = 0
  /\ outputStream' = 0
  /\ connection' = 0
  /\ readPending' = FALSE
  /\ connecting' = FALSE

\* The handles held now, whose close() may raise.
HeldParts ==
  {q \in Parts : \E i \in 1..Len(CloseCalls) : CloseCalls[i].part = q}

\* The body of GjsSocket.end, run by the call `name` after it emitted `before`.
EndBody(name, before, fails) ==
  IF ~closed
    THEN /\ closed' = TRUE
         /\ destroyed' = TRUE
         /\ cleanupStreams(fails)
         /\ Observe(name, before \o <<"close">>, This, FALSE)
    ELSE /\ UNCHANGED <<connection, inputStream, outputStream, readPending,
                        closed, connecting, destroyed, released>>
         /\ NoBackendCall
         /\ Observe(name, before, This, FALSE)

\* GjsSocket.end
end ==
  /\ \E fails \in SUBSET HeldParts : EndBody("end", <<>>, fails)
  /\ UNCHANGED <<buffers, bufferedLength, gio, issued, connectsOut, readsOut, nextByte>>

\* GjsSocket.destroy; error is whether an error argument is given.
destroy(error) ==
  /\ \E fails \in SUBSET HeldParts :
       EndBody("destroy", IF error THEN <<"error">> ELSE <<>>, fails)
  /\ UNCHANGED <<buffers, bufferedLength, gio, issued, connectsOut, readsOut, nextByte>>

\* A mutant of WriteFailed: the failed write tears the socket down.
WriteFailedDestroys ==
  /\ Observe("write", <<"error", "close">>, Bool(FALSE), FALSE)
  /\ closed' = TRUE /\ destroyed' = TRUE
  /\ inputStream' = 0 /\ outputStream' = 0 /\ connection' = 0
  /\ readPending' = FALSE /\ connecting' = FALSE
  /\ UNCHANGED <<buffers, bufferedLength, backend>>

\* GjsSocket.write when write_all reports failure or raises: an `error`
\* event and a false result, nothing else.
WriteFailed ==
  /\ Observe("write", <<"error">>, Bool(FALSE), FALSE)
  /\ UNCHANGED <<sock, backend>>

\* GjsSocket.write; outcome is what write_all does: "ok", "notok" (its flag
\* is false) or "raise".
write(data, outcome) ==
  /\ IF outputStream = 0
       THEN /\ NoBackendCall
            /\ Observe("write", <<"error">>, Bool(FALSE), FALSE)
            /\ UNCHANGED <<sock, backend>>
       ELSE /\ calls' = <<Call("write_all", outputStream, "output", <<>>)>>
            /\ IF outcome = "ok"
                 THEN /\ Observe("write", <<>>, Bool(TRUE), FALSE)
                      /\ UNCHANGED <<sock, backend>>
                 ELSE WriteFailed
  /\ UNCHANGED gio

\* A mutant of Drain: a chunk that is read in part stays queued whole.
RECURSIVE DrainKeepsChunk(_, _)
DrainKeepsChunk(bufs, want) ==
  IF want <= 0 \/ bufs = <<>> THEN [out |-> <<>>, rest |-> bufs]
  ELSE LET chunk == Head(bufs)
       IN  IF Len(chunk) <= want
             THEN LET more == DrainKeepsChunk(Tail(bufs), want - Len(chunk))
                  IN  [out |-> chunk \o more.out, rest |-> more.rest]
             ELSE [out |-> SubSeq(chunk, 1, want), rest |-> bufs]

\* The loop of GjsSocket.read: takes `want` bytes off the head of the queue.
RECURSIVE Drain(_, _)
Drain(bufs, want) ==
  IF want <= 0 \/ bufs = <<>> THEN [out |-> <<>>, rest |-> bufs]
  ELSE LET chunk == Head(bufs)
       IN  IF Len(chunk) <= want
             THEN LET more == Drain(Tail(bufs), want - Len(chunk))
                  IN  [out |-> chunk \o more.out, rest |-> more.rest]
             ELSE [out |-> SubSeq(chunk, 1, want),
                   rest |-> <<SubSeq(chunk, want + 1, Len(chunk))>> \o Tail(bufs)]

\* A mutant of read: after draining, read() restarts the pump with queueRead.
readThenQueuesRead(size) ==
  LET available == bufferedLength
      targetSize == IF size.given THEN MathMin(size.n, available) ELSE available
      drained == Drain(buffers, Trunc(targetSize))
  IN  /\ IF available = Int_(0)
           THEN /\ UNCHANGED <<buffers, bufferedLength>>
                /\ Observe("read", <<>>, Bytes(<<>>), FALSE)
           ELSE IF Negative(targetSize)
             THEN /\ UNCHANGED <<buffers, bufferedLength>>
                  /\ Observe("read", <<>>, NoValue, TRUE)
             ELSE /\ buffers' = drained.rest
                  /\ bufferedLength' = Minus(bufferedLength, targetSize)
                  /\ Observe("read", <<>>, Bytes(drained.out), FALSE)
      /\ IF inputStream = 0 \/ closed \/ readPending
           THEN /\ UNCHANGED <<readPending, readsOut>>
                /\ NoBackendCall
           ELSE /\ readPending' = TRUE
                /\ readsOut' = readsOut + 1
                /\ calls' = <<Call("read_bytes_async", inputStream, "input", <<>>)>>
      /\ UNCHANGED <<connection, inputStream, outputStream, closed,
                     connecting, destroyed, gio, issued, connectsOut, nextByte, released>>

\* GjsSocket.read.  Buffer.allocUnsafe raises a RangeError on a negative size
\* and cuts a size that is no integer to its integer part, as copy and
\* subarray do with their offsets; the counter is reduced by the size as given.
read(size) ==
  LET available == bufferedLength
      targetSize == IF size.given THEN MathMin(size.n, available) ELSE available
      drained == Drain(buffers, Trunc(targetSize))
  IN  /\ IF available = Int_(0)
           THEN /\ UNCHANGED <<buffers, bufferedLength>>
                /\ Observe("read", <<>>, Bytes(<<>>), FALSE)
           ELSE IF Negative(targetSize)
             THEN /\ UNCHANGED <<buffers, bufferedLength>>
                  /\ Observe("read", <<>>, NoValue, TRUE)
             ELSE /\ buffers' = drained.rest
                  /\ bufferedLength' = Minus(bufferedLength, targetSize)
                  /\ Observe("read", <<>>, Bytes(drained.out), FALSE)
      /\ NoBackendCall
      /\ UNCHANGED <<connection, inputStream, outputStream, readPending, closed,
                     connecting, destroyed, gio, backend>>

\* A mutant of RejectTarget: the flags are set before the target is checked.
RejectTargetAfterFlags ==
  /\ connecting' = TRUE /\ closed' = FALSE /\ destroyed' = FALSE
  /\ UNCHANGED <<issued, connectsOut>>
  /\ NoBackendCall
  /\ Observe("connect", <<"error">>, This, FALSE)

\* The rejection of a target by connect, connectFromHostPort,
\* beginTcpConnection or beginUnixConnection: an `error` event and a return.
RejectTarget ==
  /\ UNCHANGED <<connecting, closed, destroyed, issued, connectsOut>>
  /\ NoBackendCall
  /\ Observe("connect", <<"error">>, This, FALSE)

\* GjsSocket.connect: either the target is rejected with an `error` event, or
\* the begin...Connection method sets the flags and issues one backend connect
\* request.
connect(arg, made) ==
  LET plan == ResolveTarget(arg, gio, made)
  IN  /\ IF plan.kind = "error"
           THEN RejectTarget
           ELSE /\ issued < MaxConnects
                /\ connecting' = TRUE
                /\ closed' = FALSE
                /\ destroyed' = FALSE
                /\ issued' = issued + 1
                /\ connectsOut' = connectsOut + 1
                /\ calls' = <<IF plan.kind = "tcp"
                                THEN Call("connect_to_uri_async", 0, "", plan.uri)
                                ELSE Call("connect_async", 0, "", plan.path)>>
                /\ Observe("connect", <<>>, This, FALSE)
      /\ UNCHANGED <<connection, inputStream, outputStream, buffers, bufferedLength,
                     readPending, gio, readsOut, nextByte, released>>

\* GjsSocket.queueRead, run with the given values of inputStream, closed and
\* readPending when `reads` requests are outstanding.
queueRead(input, isClosed, pending, reads) ==
  IF input = 0 \/ isClosed \/ pending
    THEN /\ readPending' = pending
         /\ readsOut' = reads
         /\ NoBackendCall
    ELSE /\ readPending' = TRUE
         /\ readsOut' = reads + 1
         /\ calls' = <<Call("read_bytes_async", input, "input", <<>>)>>

\* A mutant of onConnected: the handles are installed and destroyed is left
\* as it is.
onConnectedKeepsDestroyed(id, streams) ==
  IF streams # "both"
    THEN /\ connecting' = FALSE
         /\ UNCHANGED <<connection, inputStream, outputStream, readPending,
                        closed, destroyed, readsOut>>
         /\ NoBackendCall
         /\ Observe("connectCallback", <<"error">>, NoValue, FALSE)
    ELSE /\ connection' = id
         /\ inputStream' = id
         /\ outputStream' = id
         /\ connecting' = FALSE
         /\ closed' = FALSE
         /\ destroyed' = destroyed
         /\ queueRead(id, FALSE, readPending, readsOut)
         /\ Observe("connectCallback", <<"connect">>, NoValue, FALSE)

\* GjsSocket.onConnected, for the connection `id`; streams is "both" when the
\* connection has an input and an output stream.
onConnected(id, streams) ==
  IF streams # "both"
    THEN /\ connecting' = FALSE
         /\ UNCHANGED <<connection, inputStream, outputStream, readPending,
                        closed, destroyed, readsOut>>
         /\ NoBackendCall
         /\ Observe("connectCallback", <<"error">>, NoValue, FALSE)
    ELSE /\ connection' = id
         /\ inputStream' = id
         /\ outputStream' = id
         /\ connecting' = FALSE
         /\ closed' = FALSE
         /\ destroyed' = FALSE
         /\ queueRead(id, FALSE, readPending, readsOut)
         /\ Observe("connectCallback", <<"connect">>, NoValue, FALSE)

\* The callback of connect_to_uri_async / connect_async.  outcome is "fail"
\* when connect_..._finish raises; otherwise the backend hands over a new
\* connection, named by the number of requests completed so far.
connectCallback(outcome) ==
  /\ connectsOut > 0
  /\ connectsOut' = connectsOut - 1
  /\ IF outcome = "fail"
       THEN /\ connecting' = FALSE
            /\ UNCHANGED <<connection, inputStream, outputStream, readPending,
                           closed, destroyed, readsOut>>
            /\ NoBackendCall
            /\ Observe("connectCallback", <<"error">>, NoValue, FALSE)
       ELSE onConnected(issued - connectsOut + 1, outcome)
  /\ UNCHANGED <<buffers, bufferedLength, gio, issued, nextByte, released>>

\* GjsSocket.handleRemoteClose, run by the read callback after it cleared
\* readPending.
handleRemoteClose(fails) ==
  IF closed
    THEN /\ readPending' = FALSE
         /\ UNCHANGED <<connection, inputStream, outputStream, closed,
                        connecting, destroyed, released>>
         /\ NoBackendCall
         /\ Observe("readCallback", <<>>, NoValue, FALSE)
    ELSE /\ closed' = TRUE
         /\ cleanupStreams(fails)
         /\ destroyed' = TRUE
         /\ Observe("readCallback", <<"end", "close">>, NoValue, FALSE)

\* The bytes a completed read of n bytes delivers.
Chunk(n) == [i \in 1..n |-> nextByte + i - 1]

\* The callback of read_bytes_async.  outcome: "null" (no Gio.Bytes), "empty"
\* (zero bytes), "data" (n bytes) or "error" (read_bytes_finish or the
\* conversion raises).  react is what the `readable` listener does before it
\* returns: "none", or "end" when it calls end().
readCallback(outcome, n, react) ==
  /\ readsOut > 0
  /\ CASE outcome \in {"null", "empty"} ->
            /\ \E fails \in SUBSET HeldParts : handleRemoteClose(fails)
            /\ readsOut' = readsOut - 1
            /\ UNCHANGED <<buffers, bufferedLength, nextByte>>
       [] outcome = "data" ->
            /\ nextByte + n - 1 <= MaxBytes
            /\ buffers' = Append(buffers, Chunk(n))
            /\ bufferedLength' = Plus(bufferedLength, Int_(n))
            /\ nextByte' = nextByte + n
            /\ IF react = "end" /\ ~closed
                 THEN /\ closed' = TRUE
                      /\ destroyed' = TRUE
                      /\ \E fails \in SUBSET HeldParts : cleanupStreams(fails)
                      /\ readsOut' = readsOut - 1
                      /\ Observe("readCallback", <<"readable", "close">>, NoValue, FALSE)
                 ELSE /\ queueRead(inputStream, closed, FALSE, readsOut - 1)
                      /\ UNCHANGED <<connection, inputStream, outputStream,
                                     closed, connecting, destroyed, released>>
                      /\ Observe("readCallback", <<"readable">>, NoValue, FALSE)
       [] outcome = "error" ->
            /\ readPending' = FALSE
            /\ readsOut' = readsOut - 1
            /\ UNCHANGED <<connection, inputStream, outputStream, buffers,
                           bufferedLength, closed, connecting, destroyed,
                           nextByte, released>>
            /\ NoBackendCall
            /\ Observe("readCallback", <<"error">>, NoValue, FALSE)
  /\ UNCHANGED <<gio, issued, connectsOut>>

Next ==
  \/ \E arg \in ConnectArgs : \E made \in MadeFor(arg) : connect(arg, made)
  \/ \E data \in WriteData, outcome \in {"ok", "notok", "raise"} : write(data, outcome)
  \/ \E size \in ReadSizes : read(size)
  \/ end
  \/ \E error \in BOOLEAN : destroy(error)
  \/ \E outcome \in {"both", "noinput", "nooutput", "fail"} : connectCallback(outcome)
  \/ \E outcome \in {"null", "empty", "data", "error"}, n \in 1..MaxChunk,
        react \in {"none", "end"} : readCallback(outcome, n, react)

Spec == Init /\ [][Next]_vars

\* --------------------------------------------------------------- properties
\* The states of the connection state machine, read off the socket's fields.
Closed == destroyed

Connected == ~destroyed /\ connection # 0

Connecting == ~destroyed /\ connection = 0 /\ connecting

Idle == ~destroyed /\ connection = 0 /\ ~connecting

\* A connect() call whose target the socket accepts.
AcceptedConnect ==
  \E arg \in ConnectArgs : \E made \in MadeFor(arg) :
    ResolveTarget(arg, gio, made).kind # "error" /\ connect(arg, made)

\* A connect() call whose target is rejected before it reaches the backend.
RejectedConnect ==
  \E arg \in ConnectArgs : \E made \in MadeFor(arg) :
    ResolveTarget(arg, gio, made).kind = "error" /\ connect(arg, made)

\* C1: Closed is terminal.  Once the socket is torn down (destroyed is true),
\* every later step leaves destroyed true, issues no backend connect request
\* and emits no `connect` event.
C1_ClosedIsTerminal ==
  [][destroyed => /\ destroyed'
                  /\ issued' = issued
                  /\ "connect" \notin Events(emitted')]_vars

\* C2: after end() or destroy() during an outstanding connect request, the
\* successful completion of that request emits no `connect` event, acquires
\* no stream handle, issues no read request and leaves destroyed true.
C2_TeardownCancelsConnect ==
  [][(destroyed /\ connectsOut > 0 /\ connectCallback("both"))
       => /\ destroyed'
          /\ "connect" \notin Events(emitted')
          /\ connection' = 0 /\ inputStream' = 0 /\ outputStream' = 0
          /\ calls' = <<>>]_vars

\* C3: at most one backend connect request is outstanding at any time.
C3_OneConnectOutstanding == connectsOut <= 1

\* C4: at most one backend read request is outstanding at any time.
C4_OneReadOutstanding == readsOut <= 1

\* C5: no public call (connect, write, read, end, destroy) ends by raising an
\* exception to its caller.
C5_NeverThrows == ~thrown

\* C6: a connect() call whose target is rejected before it reaches the
\* backend emits exactly one `error` event, issues no backend request, does
\* not set connecting, and leaves destroyed, the handles and the Read Buffer
\* as they were; after it, a connect() with a valid target is still accepted.
C6_RejectedConnectHasNoSideEffects ==
  /\ [][(op' = "connect" /\ RejectedConnect)
          => /\ emitted' = <<"error">>
             /\ ~thrown'
             /\ calls' = <<>>
             /\ issued' = issued /\ connectsOut' = connectsOut
             /\ connecting' = connecting
             /\ UNCHANGED <<destroyed, closed, connection, inputStream,
                            outputStream, buffers, bufferedLength, readPending>>]_vars
  /\ []((op = "connect" /\ emitted = <<"error">> /\ issued < MaxConnects)
          => ENABLED AcceptedConnect)

\* C6's case: a rejected connect() on an idle socket that has issued nothing.
C6_Witness ==
  op = "connect" /\ emitted = <<"error">> /\ Idle /\ issued = 0

\* C7: outside Connected, write() returns false, emits exactly one `error`
\* event, makes no backend call and changes no state of the socket.
C7_WriteOnlyWhenConnected ==
  [][(op' = "write" /\ ~Connected)
       => /\ result' = Bool(FALSE)
          /\ emitted' = <<"error">>
          /\ calls' = <<>>
          /\ UNCHANGED <<sock, backend>>]_vars

\* C7's case: a write() refused on a socket that was connected and then
\* closed.
C7_Witness ==
  /\ op = "write" /\ result = Bool(FALSE) /\ calls = <<>>
  /\ Closed /\ {"connect", "close"} \subseteq seen

\* C8: a write() whose backend write reports failure or raises returns false
\* and emits `error`, and nothing else: the socket stays Connected with its
\* handles, no `close` is emitted, the read pump is as it was, and the next
\* write() is passed to the backend again.
C8_FailedWriteKeepsSocket ==
  /\ [][(\E data \in WriteData, outcome \in {"notok", "raise"} :
           outputStream # 0 /\ write(data, outcome))
          => /\ result' = Bool(FALSE)
             /\ emitted' = <<"error">>
             /\ ~thrown'
             /\ Connected'
             /\ UNCHANGED <<sock, backend>>]_vars
  /\ [][(op = "write" /\ calls # <<>> /\ result = Bool(FALSE) /\ op' = "write")
          => Named(calls', "write_all") # <<>>]_vars

\* C8's case: a write() whose backend call failed, on a socket that is still
\* connected afterwards.
C8_Witness ==
  /\ op = "write" /\ calls # <<>> /\ result = Bool(FALSE)
  /\ Connected /\ outputStream # 0

\* C9: end() and destroy(error?) on a socket that is already torn down emit
\* no event, close no handle and change no state, whatever the argument.
C9_TeardownIdempotent ==
  [][(closed /\ op' \in {"end", "destroy"})
       => /\ emitted' = <<>>
          /\ calls' = <<>>
          /\ UNCHANGED <<sock, backend>>]_vars

\* C10: `end` marks a peer-initiated close and nothing else.  A read that
\* completes with no bytes on an open socket releases the handles, sets
\* destroyed and emits `end` then `close`; end() and destroy() never emit
\* `end`; and `end` is emitted at most once per socket.
C10_EndMarksRemoteClose ==
  [][/\ (~closed /\ \E outcome \in {"null", "empty"} : readCallback(outcome, 1, "none"))
          => /\ emitted' = <<"end", "close">>
             /\ destroyed'
             /\ connection' = 0 /\ inputStream' = 0 /\ outputStream' = 0
             /\ {<<connection, q>> : q \in HeldParts} \subseteq released'
     /\ (op' \in {"end", "destroy"}) => "end" \notin Events(emitted')
     /\ ("end" \in Events(emitted')) => "end" \notin seen]_vars


\* ------------------------------------------------------- a clean session
\* The session of a consumer that follows the life cycle: it connects only
\* from Idle and never tears the socket down, no backend read fails, and the
\* backend's callbacks are scheduled fairly.  read() is called with any size.
SessionConnect ==
  /\ Idle
  /\ \E arg \in ConnectArgs : \E made \in MadeFor(arg) : connect(arg, made)

SessionConnectCallback ==
  \E outcome \in {"both", "noinput", "nooutput", "fail"} : connectCallback(outcome)

SessionReadCallback ==
  \E outcome \in {"null", "empty", "data"}, n \in 1..MaxChunk :
    readCallback(outcome, n, "none")

SessionNext ==
  \/ SessionConnect
  \/ \E data \in WriteData, outcome \in {"ok", "notok", "raise"} : write(data, outcome)
  \/ \E size \in ReadSizes \cup FractionalSizes : read(size)
  \/ SessionConnectCallback
  \/ SessionReadCallback

SessionSpec ==
  /\ Init
  /\ [][SessionNext]_vars
  /\ WF_vars(SessionConnectCallback)
  /\ WF_vars(SessionReadCallback)

\* ------------------------------------------------------- the Read Buffer
\* The bytes queued in the Read Buffer, in order.
RECURSIVE Flatten(_)
Flatten(bufs) == IF bufs = <<>> THEN <<>> ELSE Head(bufs) \o Flatten(Tail(bufs))

\* The sum of the lengths of the queued chunks.
RECURSIVE SumLen(_)
SumLen(bufs) == IF bufs = <<>> THEN 0 ELSE Len(Head(bufs)) + SumLen(Tail(bufs))

\* The bytes the peers have delivered so far: C1..Cn in arrival order.
Delivered == [i \in 1..(nextByte - 1) |-> i]

\* read(size) calls with a non-negative integer size, and read().
WholeSizes == {size \in ReadSizes : size.n.v >= 0}

\* How many bytes a read(size) call is asked for, of `have` buffered.
Asked(size, have) ==
  IF size.given /\ size.n.v < have THEN size.n.v ELSE have

\* C11: liveness of a clean session.  Once a connect has succeeded, the socket
\* eventually emits `end` then `close` and is destroyed; when it emits `end`,
\* the bytes read so far plus readableLength are the N bytes the peer sent;
\* and after `end` no `readable` is emitted and destroyed stays true.
C11_CleanSessionEnds ==
  /\ ("connect" \in seen) ~> (destroyed /\ {"end", "close"} \subseteq seen)
  /\ [][("end" \in Events(emitted'))
          => /\ emitted' = <<"end", "close">>
             /\ destroyed'
             /\ Plus(Int_(Len(returned')), bufferedLength') = Int_(nextByte' - 1)]_vars
  /\ [][("end" \in seen) => ("readable" \notin Events(emitted') /\ destroyed')]_vars

\* C12: a backend connect failure on a socket that is not torn down emits
\* exactly one `error` and no `connect`, clears connecting, leaves destroyed
\* false and no handle held, and issues no backend request; a backend connect
\* request is issued by connect() calls only; and after the failure connect()
\* with a valid target and destroy() are accepted.
C12_ConnectFailureReturnsToIdle ==
  /\ [][(~destroyed /\ connectCallback("fail"))
          => /\ emitted' = <<"error">>
             /\ ~connecting'
             /\ ~destroyed'
             /\ connection' = 0 /\ inputStream' = 0 /\ outputStream' = 0
             /\ calls' = <<>>
             /\ issued' = issued]_vars
  /\ [][(issued' # issued) => (op' = "connect")]_vars
  /\ []((op = "connectCallback" /\ emitted = <<"error">> /\ issued < MaxConnects)
          => (ENABLED AcceptedConnect /\ ENABLED destroy(FALSE)))

\* C13: Read Buffer conservation.  A read(size) call with a non-negative
\* integer size returns the first min(size, readableLength) buffered bytes and
\* read() returns them all, the rest stays queued in order and readableLength
\* is what remains; a completed read appends its chunk at the tail; and the
\* bytes returned so far followed by the bytes queued are always the chunks
\* C1..Cn in arrival order.
C13_ReadBufferConservation ==
  /\ [](returned \o Flatten(buffers) = Delivered)
  /\ [][(op' = "read")
          => \A size \in WholeSizes :
               read(size)
                 => LET have == Flatten(buffers)
                        k == Asked(size, bufferedLength.v)
                    IN  /\ result' = Bytes(SubSeq(have, 1, k))
                        /\ Flatten(buffers') = SubSeq(have, k + 1, Len(have))
                        /\ bufferedLength' = Int_(Len(have) - k)]_vars
  /\ [][(op' = "readCallback" /\ "readable" \in Events(emitted'))
          => /\ Len(buffers') = Len(buffers) + 1
             /\ SubSeq(buffers', 1, Len(buffers)) = buffers
             /\ buffers'[Len(buffers')] # <<>>
             /\ returned' = returned]_vars

\* C13's case: a read that took part of a chunk and left the rest queued.
C13_Witness ==
  /\ op = "read" /\ Len(result.bytes) = 1
  /\ buffers = <<<<2>>>> /\ returned = <<1>> /\ bufferedLength = Int_(1)

\* C14: readableLength is the sum of the lengths of the queued chunks, and no
\* queued chunk is empty.
C14_LengthIsSumOfChunks ==
  /\ bufferedLength = Int_(SumLen(buffers))
  /\ \A i \in 1..Len(buffers) : buffers[i] # <<>>


\* ------------------------------------------------------ address parsing
\* The pieces string targets and host names are built from.
Tokens ==
  { <<"h">>, <<":">>, <<"1">>, <<"6", "5", "5", "3", "6">>, <<":", ":", "1">>,
    <<"[">>, <<"]">>, <<"/">>, <<" ">> }

\* The strings of at most n pieces.
RECURSIVE Bodies(_)
Bodies(n) ==
  IF n = 0 THEN {<<>>}
  ELSE {<<>>} \cup {t \o b : t \in Tokens, b \in Bodies(n - 1)}

UnixScheme == <<"u", "n", "i", "x", ":">>

TcpScheme == <<"t", "c", "p", ":">>

Schemes == {<<>>, UnixScheme, UnixScheme \o <<"/", "/">>, TcpScheme, TcpScheme \o <<"/", "/">>}

\* The ports of connect(port, host?)
ParsePorts ==
  {Int_(0 - 1), Int_(0), Int_(MaxPort), Int_(MaxPort + 1), Frac(1), NaN, Infinity}

\* The connect() arguments of the parsing specification.
ParseArgs ==
  {StrArg(scheme \o b) : scheme \in Schemes, b \in Bodies(MaxTokens)}
    \cup {NumArg(port, FALSE, <<>>) : port \in ParsePorts}
    \cup {NumArg(port, TRUE, h) : port \in {Int_(0), Int_(MaxPort)}, h \in Bodies(MaxTokens)}

\* A new socket and the argument its first connect() call is given.
ParseInit == NewSocket /\ portOrPath \in ParseArgs

\* The first connect() call of a socket.
ParseConnect ==
  /\ op = "new"
  /\ \E made \in MadeFor(portOrPath) : connect(portOrPath, made)

ParseSpec == ParseInit /\ [][ParseConnect]_vars


\* What a connect() call left behind: its target was rejected, or a TCP or a
\* Unix connect request went to the backend.
TargetRejected == emitted = <<"error">> /\ calls = <<>>

TcpIssued == calls # <<>> /\ calls[1].f = "connect_to_uri_async"

UnixIssued == calls # <<>> /\ calls[1].f = "connect_async"

\* A connect() call with a string target has run.
ConnectedString == op = "connect" /\ portOrPath.t = "str"

\* How often the character c occurs in s.
RECURSIVE Count(_, _)
Count(s, c) ==
  IF s = <<>> THEN 0 ELSE (IF Head(s) = c THEN 1 ELSE 0) + Count(Tail(s), c)

NoBrackets(s) == ~Includes(s, "[") /\ ~Includes(s, "]")

\* The shapes of a trimmed string target that connect() tells apart first.
HasUnixScheme(t) == StartsWith(t, UnixScheme)

HasTcpScheme(t) == StartsWith(t, TcpScheme)

Schemeless(t) == ~HasUnixScheme(t) /\ ~HasTcpScheme(t) /\ ~StartsWith(t, <<"/">>)

\* What follows the tcp:// or tcp: prefix of t.
AfterTcpScheme(t) ==
  IF StartsWith(t, TcpScheme \o <<"/", "/">>) THEN SliceFrom(t, 6) ELSE SliceFrom(t, 4)

\* C15 as stated: every string target with two or more colons and no
\* brackets is rejected: `error`, and no backend connect request.
C15_TwoColonsRejected ==
  (/\ ConnectedString
   /\ NoBrackets(portOrPath.s)
   /\ Count(portOrPath.s, ":") >= 2)
    => TargetRejected

\* C15 as amended: a string target is rejected when its host:port part - the
\* whole target when it has no unix: or tcp: prefix and no leading '/', or
\* what follows its tcp: or tcp:// prefix - holds two or more colons and no
\* brackets.
C15_TwoColonsInHostPortRejected ==
  LET t == Trim(portOrPath.s)
      part == IF HasTcpScheme(t) THEN AfterTcpScheme(t) ELSE t
  IN  (/\ ConnectedString
       /\ Schemeless(t) \/ HasTcpScheme(t)
       /\ NoBrackets(part)
       /\ Count(part, ":") >= 2)
        => TargetRejected

\* C15's case: connect("::1"), an IPv6 address without brackets, is rejected.
C15_Witness ==
  /\ op = "connect" /\ portOrPath = StrArg(<<":", ":", "1">>)
  /\ TargetRejected

\* A port text that is a decimal integer through and through, within range.
WholeDecimalPort(p) ==
  /\ p # <<>>
  /\ \A i \in 1..Len(p) : IsDigit(p[i])
  /\ DigitsValue(p) <= MaxPort

\* C16: a TCP connect request is issued only for a valid port: a numeric
\* port that is an integer within 0..65535, and in a string target a port
\* text (what follows the last colon) that is a decimal integer within range.
C16_OnlyValidPortsAccepted ==
  (op = "connect" /\ TcpIssued)
    => IF portOrPath.t = "num"
         THEN /\ portOrPath.port.k = "int"
              /\ portOrPath.port.v >= 0 /\ portOrPath.port.v <= MaxPort
         ELSE LET t == Trim(portOrPath.s)
              IN  WholeDecimalPort(SliceFrom(t, LastIndexOf(t, ":") + 1))

\* C17: a string target with no unix: or tcp: prefix and no leading '/' goes
\* to the backend as a Unix socket path if and only if it holds no colon:
\* with a colon it is a TCP target or rejected, without one it resolves to the
\* Unix path that is the target itself.
C17_UnixFallbackOnlyWithoutColon ==
  LET t == Trim(portOrPath.s)
  IN  (ConnectedString /\ t # <<>> /\ Schemeless(t))
        => /\ UnixIssued => ~Includes(t, ":")
           /\ ~Includes(t, ":")
                => /\ ~TcpIssued
                   /\ ResolveTarget(portOrPath, "full", "ok") = UnixRequest(t)


\* A host name: not empty, and free of colons, brackets, slashes and blanks.
HostName(h) ==
  h # <<>> /\ \A i \in 1..Len(h) : h[i] \notin {":", "[", "]", "/", " "}

\* A bracketed IPv6 literal with nothing after it: "[" address "]", the
\* address holding a colon and neither brackets nor blanks.
BracketedAddress(b) ==
  /\ Len(b) >= 3 /\ Head(b) = "[" /\ b[Len(b)] = "]"
  /\ LET address == SubSeq(b, 2, Len(b) - 1)
     IN  /\ Includes(address, ":")
         /\ \A i \in 1..Len(address) : address[i] \notin {"[", "]", " "}

\* The targets of the grammar that name a TCP host and no port: tcp://host,
\* tcp:host (the host a name or a bracketed IPv6 literal) and a bracketed
\* IPv6 literal by itself.
PortlessTcpTarget(t) ==
  IF HasTcpScheme(t)
    THEN HostName(AfterTcpScheme(t)) \/ BracketedAddress(AfterTcpScheme(t))
    ELSE BracketedAddress(t)

\* C18 as stated: a TCP target without a port is accepted: a TCP connect
\* request is issued and no `error` is emitted.
C18_PortlessTargetsAccepted ==
  (ConnectedString /\ PortlessTcpTarget(Trim(portOrPath.s)))
    => (TcpIssued /\ emitted = <<>>)

\* C18 as amended: a TCP target without a port - tcp://host, tcp:host, a
\* bracketed IPv6 literal - is rejected: `error`, and no backend request.
C18_PortlessTargetsRejected ==
  (ConnectedString /\ PortlessTcpTarget(Trim(portOrPath.s))) => TargetRejected

\* C18's case: connect("tcp://h") is rejected.
C18_Witness ==
  /\ op = "connect" /\ portOrPath = StrArg(TcpScheme \o <<"/", "/", "h">>)
  /\ TargetRejected


\* The path of the Unix connect request a connect() call issued.
IssuedPath == calls[1].text

\* The path connect("unix://" + x) stands for.
WithLeadingSlash(x) == IF StartsWith(x, <<"/">>) THEN x ELSE <<"/">> \o x

NoTrailingBlank(s) == TrimEnd(s) = s

\* C19 as stated: for an absolute path P, connect(P), connect("unix:" + P)
\* and connect("unix://" + P) issue a Unix connect to the path P, and
\* connect("unix://" + R) for R without a leading slash connects to "/" + R.
C19_UnixSpellingsAgree ==
  LET s == portOrPath.s
  IN  (ConnectedString /\ UnixIssued)
        => /\ StartsWith(s, <<"/">>) => IssuedPath = s
           /\ StartsWith(s, UnixScheme \o <<"/">>) => IssuedPath = SliceFrom(s, 5)
           /\ StartsWith(s, UnixScheme \o <<"/", "/">>)
                => IssuedPath = WithLeadingSlash(SliceFrom(s, 7))

\* C19 as amended: for an absolute path P without trailing white space,
\* connect(P) and connect("unix://" + P) issue a Unix connect to the path P,
\* and so does connect("unix:" + P) unless P begins with "//" (that string is
\* the unix:// spelling of what follows); connect("unix://" + R) for R without
\* a leading slash and without trailing white space connects to "/" + R.  Each
\* of these targets resolves to a Unix connect.
C19_UnixSpellingsAgreeOnTrimmedPaths ==
  LET s == portOrPath.s
      double == StartsWith(s, UnixScheme \o <<"/", "/">>)
      spelled == StartsWith(s, <<"/">>) \/ StartsWith(s, UnixScheme \o <<"/">>) \/ double
  IN  (ConnectedString /\ spelled /\ NoTrailingBlank(s))
        => /\ ResolveTarget(portOrPath, "full", "ok").kind = "unix"
           /\ UnixIssued
                => /\ StartsWith(s, <<"/">>) => IssuedPath = s
                   /\ (StartsWith(s, UnixScheme \o <<"/">>) /\ ~double)
                        => IssuedPath = SliceFrom(s, 5)
                   /\ double => IssuedPath = WithLeadingSlash(SliceFrom(s, 7))

\* C19's case: connect("unix:/h") connects to the path "/h".
C19_Witness ==
  /\ op = "connect" /\ portOrPath = StrArg(UnixScheme \o <<"/", "h">>)
  /\ UnixIssued /\ IssuedPath = <<"/", "h">>

\* The host of a normalized TCP target: a name or an address, not empty and
\* free of brackets and blanks.
NormalHost(h) ==
  h # <<>> /\ \A i \in 1..Len(h) : h[i] \notin {"[", "]", " "}

\* The string form of a Unix target: unix:// before an absolute path, unix:
\* before any other.
UnixSpelling(path) ==
  IF StartsWith(path, <<"/">>) THEN UnixScheme \o <<"/", "/">> \o path
  ELSE UnixScheme \o path

Handed(id, streams) ==
  {<<id, "connection">>}
    \cup (IF streams # "noinput" THEN {<<id, "input">>} ELSE {})
    \cup (IF streams # "nooutput" THEN {<<id, "output">>} ELSE {})

\* The handles the socket holds a reference to.
Held ==
  (IF inputStream # 0 THEN {<<inputStream, "input">>} ELSE {})
    \cup (IF outputStream # 0 THEN {<<outputStream, "output">>} ELSE {})
    \cup (IF connection # 0 THEN {<<connection, "connection">>} ELSE {})

\* The handles a step calls close() on, in order.
ClosedBy(cs) == [i \in 1..Len(Named(cs, "close")) |->
                   <<Named(cs, "close")[i].id, Named(cs, "close")[i].part>>]

\* C21: no handle is left dangling.  Every handle the backend hands over on a
\* connect completion is closed exactly once by the time the socket is Closed.
\* The socket closes only handles it holds, so this is: a handle handed over
\* is held or closed at once (also when a stream is unavailable), a handle the
\* socket lets go of (also to install another connection) is closed in that
\* step, no handle is closed twice, and a Closed socket holds none.
C21_NoHandleLeftDangling ==
  /\ [][\A streams \in {"both", "noinput", "nooutput"} :
          connectCallback(streams)
            => Handed(issued - connectsOut + 1, streams) \subseteq (Held' \cup released')]_vars
  /\ [][(Held \ Held') \subseteq released']_vars
  /\ [][\A i \in 1..Len(ClosedBy(calls')) :
          /\ ClosedBy(calls')[i] \notin released
          /\ \A j \in 1..Len(ClosedBy(calls')) :
               ClosedBy(calls')[j] = ClosedBy(calls')[i] => j = i]_vars
  /\ [](Closed => Held = {})

\* ------------------------------------------------------------ the read pump
\* The completion of a backend read with an error.
ReadFails == readCallback("error", 1, "none")

\* A connected socket with no backend read outstanding: its pump has stopped,
\* which only a failed read brings about.
Stalled == Connected /\ readsOut = 0

\* C22: a backend read that completes with an error on a Connected socket
\* emits `error` and leaves the socket Connected (handles held, destroyed
\* false, neither `close` nor `end` emitted, write() still passed to the
\* backend), and from then on no backend read request is issued and no
\* `readable` event is emitted on that socket.
C22_ReadErrorStallsPump ==
  /\ [][(Connected /\ ReadFails)
          => /\ emitted' = <<"error">>
             /\ calls' = <<>>
             /\ Connected' /\ outputStream' # 0
             /\ UNCHANGED <<connection, inputStream, outputStream, destroyed>>]_vars
  /\ [][Stalled => /\ Named(calls', "read_bytes_async") = <<>>
                   /\ "readable" \notin Events(emitted')]_vars

\* A step of the read callback that reports a failed read.
ReadFailed == op = "readCallback" /\ "error" \in Events(emitted)

\* C23: continuous pumping.  Each completed read that yields at least one
\* byte appends exactly one chunk at the tail of the Read Buffer, emits
\* exactly one `readable` event and issues the next read request if and only
\* if the socket is still open after that event.  Consequently a Connected
\* socket on which no read has failed has exactly one read request
\* outstanding after every step: a step that makes the socket Connected ends
\* with one outstanding, and a step other than a failed read that finds it
\* Connected with one outstanding leaves it so.
C23_ContinuousPumping ==
  /\ [][\A n \in 1..MaxChunk, react \in {"none", "end"} :
          readCallback("data", n, react)
            => /\ buffers' = Append(buffers, Chunk(n))
               /\ Count(emitted', "readable") = 1
               /\ Named(calls', "read_bytes_async") # <<>> <=> Connected']_vars
  /\ [][(Connected' /\ ~ReadFailed' /\ (Connected => readsOut = 1))
          => readsOut' = 1]_vars

\* ------------------------------------------------------ unavailable streams
\* The completion of a connect request with a connection that lacks its input
\* or its output stream.
StreamsUnavailable ==
  \E streams \in {"noinput", "nooutput"} : connectCallback(streams)

\* C24: when a backend connect completes but the input or the output stream
\* is unavailable, the socket emits exactly one `error` event and neither
\* `connect` nor `close`, clears connecting, starts no read pump, and a
\* write() after it returns false (the socket holds no output stream).
C24_UnavailableStreamsLeaveSocketUnusable ==
  [][StreamsUnavailable
       => /\ emitted' = <<"error">>
          /\ ~connecting'
          /\ calls' = <<>> /\ readsOut' = readsOut /\ readPending' = readPending
          /\ outputStream' = 0]_vars

\* ---------------------------------------------------------------- teardown
\* A step that tears an open socket down: end(), destroy(), a remote close or
\* an end() called by a `readable` listener.
Teardown == ~closed /\ closed'

\* C25: teardown is best-effort per handle.  Whichever of the close() calls
\* on the input stream, the output stream and the connection fail, teardown
\* calls close() on each handle the socket holds, in that order, drops all
\* three references and emits `close` last; the failures emit no `error`:
\* end() emits `close` alone, destroy() adds only the `error` of its argument,
\* and the read callback only its `end` or `readable`.
C25_TeardownIsBestEffort ==
  [][Teardown
       => /\ calls' = CloseCalls
          /\ connection' = 0 /\ inputStream' = 0 /\ outputStream' = 0
          /\ destroyed'
          /\ emitted' \in {<<"close">>, <<"end", "close">>, <<"readable", "close">>,
                           <<"error", "close">>}
          /\ (op' = "end") => emitted' = <<"close">>
          /\ (op' = "readCallback") => "error" \notin Events(emitted')
          /\ (op' = "destroy")
               => \A error \in BOOLEAN :
                    destroy(error)
                      => emitted' = (IF error THEN <<"error", "close">> ELSE <<"close">>)]_vars

\* C25's case: an end() or destroy() that closed the three handles of a
\* connected socket, where any of the close() calls may have failed.
C25_Witness ==
  /\ op \in {"end", "destroy"} /\ Len(Named(calls, "close")) = 3
  /\ Closed /\ emitted[Len(emitted)] = "close"

\* C26: read() only drains the buffer.  In every state a read(size?) call
\* issues no backend operation, emits no event, and leaves connecting,
\* destroyed, the stream handles and the in-flight-read flag as they were: it
\* changes only the Read Buffer and its length counter.
C26_ReadOnlyDrains ==
  [][(op' = "read")
       => /\ calls' = <<>>
          /\ emitted' = <<>>
          /\ UNCHANGED <<connecting, destroyed, closed, connection, inputStream,
                         outputStream, readPending, gio, backend>>]_vars

\* C26's case: a read() that returned bytes on a connected socket whose pump
\* had stopped after a failed read.
C26_Witness ==
  /\ op = "read" /\ result.bytes # <<>>
  /\ Stalled /\ ~readPending

\* ------------------------------------------------------------ after `close`
\* A step of one of the backend's callbacks.
BackendStep == op \in {"connectCallback", "readCallback"}

\* C27: `close` is the last event of a socket.  Once `close` has been
\* emitted, no step emits `readable`, `end`, `connect` or `close`, no
\* callback of the backend emits `error`, and the Read Buffer does not grow,
\* also when a read or connect request that was outstanding at teardown
\* completes.
C27_CloseIsLastEvent ==
  [][("close" \in seen)
       => /\ Events(emitted') \cap {"readable", "end", "connect", "close"} = {}
          /\ BackendStep' => "error" \notin Events(emitted')
          /\ SumLen(buffers') <= SumLen(buffers)]_vars

\* ------------------------------------------------------------- consistency
\* C28: in every reachable state the connection, input-stream and
\* output-stream references are all held or all absent, destroyed equals the
\* closed flag, and a destroyed socket holds no handle (so write() on it
\* cannot reach the backend).
C28_HandlesAgreeWithState ==
  /\ \/ connection # 0 /\ inputStream # 0 /\ outputStream # 0
     \/ connection = 0 /\ inputStream = 0 /\ outputStream = 0
  /\ destroyed = closed
  /\ destroyed => Held = {}

\* C28's case: a connect request that was outstanding at teardown has
\* completed, so handles are held again on a socket that had emitted `close`.
C28_Witness ==
  /\ op = "connectCallback" /\ emitted = <<"connect">>
  /\ "close" \in seen /\ Held # {}

\* C29: connecting is true exactly while a backend connect request issued by
\* this socket is outstanding: true from the issue of the request to its
\* completion (success, failure or unavailable streams), never false while a
\* request is pending, and never true together with destroyed.
C29_ConnectingIffRequestOutstanding ==
  /\ connecting <=> connectsOut > 0
  /\ ~(connecting /\ destroyed)

=============================================================================
